---- MODULE Spec2Model ----
(* generate_raw_urls.py: walk the current directory, keep the files that   *)
(* pass the ignore/extension filter, and overwrite raw_urls.txt with one   *)
(* raw.githubusercontent.com URL per kept file.                            *)
(*                                                                         *)
(* Text is modelled as sequences of one-character strings, so that         *)
(* endswith, replace, join, relpath and the text-mode write are computed   *)
(* character by character.                                                 *)
EXTENDS Integers, Sequences, FiniteSets, TLC

(***************************************************************************)
(* Bounds of the model.                                                    *)
(***************************************************************************)
\* Directories below the traversal root.
MaxDirs == 2
\* Entries (directories and files) below the traversal root.
MaxEntries == 4
\* Consecutive runs of the script.
MaxRuns == 2

(***************************************************************************)
(* Constants of the script (lines 4-17).                                   *)
(***************************************************************************)
repo_owner == <<"r", "o", "b", "-", "h", "a", "y", "w", "a", "r", "d">>
repo_name == <<"P", "r", "o", "j", "e", "c", "t", "Z", "e", "r", "0">>
branch == <<"m", "a", "i", "n">>

\* f"https://raw.githubusercontent.com/{repo_owner}/{repo_name}/{branch}/"
base_url ==
    <<"h", "t", "t", "p", "s", ":", "/", "/", "r", "a", "w", ".", "g", "i", "t",
      "h", "u", "b", "u", "s", "e", "r", "c", "o", "n", "t", "e", "n", "t", ".",
      "c", "o", "m", "/">> \o repo_owner \o <<"/">> \o repo_name \o <<"/">>
      \o branch \o <<"/">>

output_file == <<"r", "a", "w", "_", "u", "r", "l", "s", ".", "t", "x", "t">>

ignore_dirs ==
    { <<"n", "o", "d", "e", "_", "m", "o", "d", "u", "l", "e", "s">>,
      <<".", "g", "i", "t">>,
      <<"d", "i", "s", "t">>,
      <<"_", "_", "p", "y", "c", "a", "c", "h", "e", "_", "_">>,
      <<".", "i", "d", "e", "a">>,
      <<".", "v", "s", "c", "o", "d", "e">> }

ignore_files ==
    { <<"p", "a", "c", "k", "a", "g", "e", "-", "l", "o", "c", "k", ".", "j", "s", "o", "n">>,
      <<"y", "a", "r", "n", ".", "l", "o", "c", "k">>,
      <<".", "D", "S", "_", "S", "t", "o", "r", "e">>,
      <<".", "g", "i", "t", "i", "g", "n", "o", "r", "e">> }

\* A variant of the extension set that also admits ".txt".
allowed_extensions_txt ==
    { <<".", "s", "v", "e", "l", "t", "e">>, <<".", "t", "s">>, <<".", "j", "s">>,
      <<".", "j", "s", "o", "n">>, <<".", "h", "t", "m", "l">>, <<".", "c", "s", "s">>,
      <<".", "m", "d">>, <<".", "t", "x", "t">> }

allowed_extensions ==
    { <<".", "s", "v", "e", "l", "t", "e">>, <<".", "t", "s">>, <<".", "j", "s">>,
      <<".", "j", "s", "o", "n">>, <<".", "h", "t", "m", "l">>, <<".", "c", "s", "s">>,
      <<".", "m", "d">> }

\* f"Filtered raw URLs saved to {output_file}"
confirmation ==
    <<"F", "i", "l", "t", "e", "r", "e", "d", " ", "r", "a", "w", " ", "U", "R",
      "L", "s", " ", "s", "a", "v", "e", "d", " ", "t", "o", " ">> \o output_file

(***************************************************************************)
(* The platform: the path separator os.path uses, the separators normpath  *)
(* splits on, and the line separator a text-mode write emits for "\n".     *)
(***************************************************************************)
Platforms == {"posix", "nt"}

Sep(p) == IF p = "nt" THEN "\\" ELSE "/"

SplitChars(p) == IF p = "nt" THEN {"\\", "/"} ELSE {"/"}

LineSep(p) == IF p = "nt" THEN <<"\r", "\n">> ELSE <<"\n">>

(***************************************************************************)
(* String functions of the Python runtime, on character sequences.         *)
(***************************************************************************)
\* str.endswith
EndsWith(s, suf) ==
    /\ Len(suf) <= Len(s)
    /\ SubSeq(s, Len(s) - Len(suf) + 1, Len(s)) = suf

\* A replace that leaves the string as it is.
ReplaceNothing(s, old, new) == s

\* str.replace for a one-character pattern and a one-character replacement
Replace(s, old, new) == [i \in 1..Len(s) |-> IF s[i] = old THEN new ELSE s[i]]

\* str.join
RECURSIVE Join(_, _)
Join(items, sep) ==
    IF items = <<>> THEN <<>>
    ELSE IF Len(items) = 1 THEN Head(items)
    ELSE Head(items) \o sep \o Join(Tail(items), sep)

\* The pieces of s between the characters of seps (str.split for
\* one-character separators).
RECURSIVE Split(_, _)
Split(s, seps) ==
    LET at == {i \in 1..Len(s) : s[i] \in seps}
    IN IF at = {} THEN <<s>>
       ELSE LET first == CHOOSE i \in at : \A j \in at : i <= j
            IN <<SubSeq(s, 1, first - 1)>> \o Split(SubSeq(s, first + 1, Len(s)), seps)

\* os.path.join(a, b) for a relative b and an a that does not end in a separator
PathJoin(p, a, b) == a \o <<Sep(p)>> \o b

IsRealComponent(c) == c # <<>> /\ c # <<".">>

\* os.path.relpath(path, "."): both sides are made absolute and normalised,
\* which drops the empty and "." components of a path below the start
\* directory; the rest is joined with the platform separator.
RelPath(p, path) ==
    Join(SelectSeq(Split(path, SplitChars(p)), IsRealComponent), <<Sep(p)>>)

\* The bytes a text-mode file receives for a string: every "\n" becomes
\* os.linesep, everything else is kept.
TextWrite(p, s) == Join(Split(s, {"\n"}), LineSep(p))

RECURSIVE Reverse(_)
Reverse(s) == IF s = <<>> THEN <<>> ELSE Append(Reverse(Tail(s)), Head(s))

Front(s) == SubSeq(s, 1, Len(s) - 1)

Last(s) == s[Len(s)]

Range(s) == {s[i] : i \in DOMAIN s}

(***************************************************************************)
(* The directory tree under the current directory.  Directory 0 is ".";    *)
(* directory i >= 1 is dirs[i], a record of its parent and its name.  A    *)
(* file is a record of the directory that holds it and its name.           *)
(***************************************************************************)
DirNames ==
    { <<"s", "r", "c">>,
      <<"n", "o", "d", "e", "_", "m", "o", "d", "u", "l", "e", "s">> }

\* File names every platform allows.
PortableFileNames ==
    { <<"a", ".", "t", "s">>,
      <<"p", "a", "c", "k", "a", "g", "e", "-", "l", "o", "c", "k", ".", "j", "s", "o", "n">>,
      <<"i", "m", "a", "g", "e", ".", "p", "n", "g">> }

\* File names only a POSIX file system allows: a backslash or a newline in
\* the name.
PosixFileNames ==
    { <<".", "\\", "a", ".", "t", "s">>,
      <<"n", "\n", "l", ".", "t", "s">> }

FileNames(p) ==
    IF p = "posix" THEN PortableFileNames \cup PosixFileNames ELSE PortableFileNames

\* The order in which a directory listing returns names (arbitrary, but the
\* same every time the directory is listed).
NameOrder ==
    << <<".", "\\", "a", ".", "t", "s">>,
       <<"a", ".", "t", "s">>,
       <<"b", ".", "t", "s">>,
       <<"i", "m", "a", "g", "e", ".", "p", "n", "g">>,
       <<"n", "\n", "l", ".", "t", "s">>,
       <<"n", "o", "t", "e", "s", ".", "m", "d">>,
       <<"p", "a", "c", "k", "a", "g", "e", "-", "l", "o", "c", "k", ".", "j", "s", "o", "n">>,
       output_file >>

DirRecs == [parent : 0..(MaxDirs - 1), name : DirNames]

\* Sequences of n directories: a parent comes before its children, and no
\* two directories of one parent share a name.
DirSeqs(n) ==
    { ds \in [1..n -> DirRecs] :
        /\ \A i \in 1..n : ds[i].parent < i
        /\ \A i, j \in 1..n : (i # j /\ ds[i].parent = ds[j].parent)
                                    => ds[i].name # ds[j].name }

\* The subsets of S with at most k elements.
RECURSIVE SubsetsUpTo(_, _)
SubsetsUpTo(S, k) ==
    IF k = 0 \/ S = {} THEN {{}}
    ELSE LET x == CHOOSE y \in S : TRUE
             rest == S \ {x}
         IN SubsetsUpTo(rest, k) \cup {T \cup {x} : T \in SubsetsUpTo(rest, k - 1)}

FileSlots(n, p) == [dir : 0..n, name : FileNames(p)]

GeneratedTrees(p) ==
    UNION { UNION { { [dirs |-> ds, files |-> S] :
                        S \in SubsetsUpTo(FileSlots(n, p), MaxEntries - n) } :
                    ds \in DirSeqs(n) } :
            n \in 0..MaxDirs }

\* The tree a.ts, node_modules/b.ts, notes.md, package-lock.json, image.png.
ScenarioTree ==
    [ dirs |-> << [parent |-> 0,
                   name |-> <<"n", "o", "d", "e", "_", "m", "o", "d", "u", "l", "e", "s">>] >>,
      files |-> { [dir |-> 0, name |-> <<"a", ".", "t", "s">>],
                  [dir |-> 1, name |-> <<"b", ".", "t", "s">>],
                  [dir |-> 0, name |-> <<"n", "o", "t", "e", "s", ".", "m", "d">>],
                  [dir |-> 0, name |-> <<"p", "a", "c", "k", "a", "g", "e", "-", "l", "o", "c", "k", ".", "j", "s", "o", "n">>],
                  [dir |-> 0, name |-> <<"i", "m", "a", "g", "e", ".", "p", "n", "g">>] } ]

Trees(p) == GeneratedTrees(p) \cup {ScenarioTree}

\* The output file is absent, or holds text left by something else.
NoFile == [exists |-> FALSE, data |-> <<>>]

FileWith(data) == [exists |-> TRUE, data |-> data]

StaleText == <<"j", "u", "n", "k", "\n">>

(***************************************************************************)
(* State.                                                                  *)
(***************************************************************************)
VARIABLES
    platform,    \* "posix" or "nt"
    fs,          \* the tree below ".", without the output file
    unreadable,  \* the directories whose listing raises an OSError
    outFile,     \* raw_urls.txt in ".": NoFile, or FileWith(its content)
    pc,          \* "walk" (lines 21-33), "done" (after line 39), "failed"
    stack,       \* os.walk's directories still to list, next one last
    raw_urls,    \* the list of line 20
    included,    \* the file each element of raw_urls was built from
    visited,     \* the directories os.walk has yielded in this run
    denied,      \* the directories whose listing failed in this run
    opens,       \* how often this run has opened the output file for writing
    oldOut,      \* what the output file held when this run opened it
    stdout,      \* the lines printed by this run
    run          \* the number of the current run

vars == <<platform, fs, unreadable, outFile, pc, stack, raw_urls, included,
          visited, denied, opens, oldOut, stdout, run>>

NumDirs == Len(fs.dirs)

\* The files of the tree, the output file included once it exists.
AllFiles ==
    fs.files \cup (IF outFile.exists THEN {[dir |-> 0, name |-> output_file]} ELSE {})

\* The path os.walk builds for a directory: "." for the top, and
\* os.path.join(path of the parent, name) below it.
RECURSIVE PathOf(_)
PathOf(d) ==
    IF d = 0 THEN <<".">>
    ELSE PathJoin(platform, PathOf(fs.dirs[d].parent), fs.dirs[d].name)

\* The subdirectories os.scandir reports for a directory, in listing order.
ScanDirs(d) ==
    SelectSeq([i \in 1..NumDirs |-> i], LAMBDA i : fs.dirs[i].parent = d)

\* The non-directory names os.scandir reports for a directory, in listing order.
ScanFiles(d) ==
    SelectSeq(NameOrder, LAMBDA n : [dir |-> d, name |-> n] \in AllFiles)

(***************************************************************************)
(* The loop body (lines 23-33).                                            *)
(***************************************************************************)
\* A pruning that keeps every subdirectory.
PruneNothing(dirs) == dirs

\* Line 23: dirs[:] = [d for d in dirs if d not in ignore_dirs]
Prune(dirs) == SelectSeq(dirs, LAMBDA d : fs.dirs[d].name \notin ignore_dirs)

\* A filter that forgets the ignore-files test.
QualifiesAnyName(file) == \E ext \in allowed_extensions : EndsWith(file, ext)

\* A filter that forgets the extension test.
QualifiesAnyExtension(file) == file \notin ignore_files

\* Lines 27-30: the condition under which a file is kept.
Qualifies(file) ==
    /\ file \notin ignore_files
    /\ \E ext \in allowed_extensions : EndsWith(file, ext)

\* Line 32: os.path.relpath(os.path.join(root, file), ".")
relative_path(root, file) == RelPath(platform, PathJoin(platform, root, file))

\* Line 33: base_url + relative_path.replace("\\", "/")
MakeUrl(root, file) == base_url \o Replace(relative_path(root, file), "\\", "/")

\* An os.walk whose onerror handler re-raises.
onerror_raise == "raise"

\* Line 21: os.walk(".") is called without onerror, so an OSError of the
\* listing is dropped and the walk goes on with the next directory.
onerror == "ignore"

\* Mode "a": the write lands after what the file already holds.
OpenAppend(old) == old.data

\* Line 36: open(output_file, "w") creates the file or truncates it.
OpenWrite(old) == <<>>

(***************************************************************************)
(* Init: the state when line 21 is reached.                                *)
(***************************************************************************)
Init ==
    /\ platform \in Platforms
    /\ fs \in Trees(platform)
    /\ unreadable \in {{}} \cup {{d} : d \in 0..Len(fs.dirs)}
    /\ outFile \in {NoFile, FileWith(StaleText)}
    /\ pc = "walk"
    /\ stack = <<0>>
    /\ raw_urls = <<>>
    /\ included = <<>>
    /\ visited = {}
    /\ denied = {}
    /\ opens = 0
    /\ oldOut = NoFile
    /\ stdout = <<>>
    /\ run = 1

\* One iteration of the for loop of line 21 over a directory that can be
\* listed: os.walk yields (root, dirs, files), the body prunes dirs and
\* appends the URLs of the kept files, and os.walk pushes the pruned dirs.
WalkYield ==
    /\ pc = "walk"
    /\ stack # <<>>
    /\ Last(stack) \notin unreadable
    /\ LET top == Last(stack)
           root == PathOf(top)
           dirs == Prune(ScanDirs(top))
           files == SelectSeq(ScanFiles(top), Qualifies)
       IN /\ raw_urls' = raw_urls \o [i \in 1..Len(files) |-> MakeUrl(root, files[i])]
          /\ included' = included \o [i \in 1..Len(files) |-> [dir |-> top, name |-> files[i]]]
          /\ stack' = Front(stack) \o Reverse(dirs)
          /\ visited' = visited \cup {top}
    /\ UNCHANGED <<platform, fs, unreadable, outFile, pc, denied, opens, oldOut,
                   stdout, run>>

\* os.walk reaches a directory whose listing raises an OSError.
WalkDenied ==
    /\ pc = "walk"
    /\ stack # <<>>
    /\ Last(stack) \in unreadable
    /\ denied' = denied \cup {Last(stack)}
    /\ IF onerror = "ignore"
       THEN stack' = Front(stack) /\ pc' = pc
       ELSE stack' = stack /\ pc' = "failed"
    /\ UNCHANGED <<platform, fs, unreadable, outFile, raw_urls, included, visited,
                   opens, oldOut, stdout, run>>

\* Lines 36-39, once os.walk is exhausted: open, write the joined URLs, print.
WriteOutput ==
    /\ pc = "walk"
    /\ stack = <<>>
    /\ opens' = opens + 1
    /\ oldOut' = outFile
    /\ outFile' = FileWith(OpenWrite(outFile) \o TextWrite(platform, Join(raw_urls, <<"\n">>)))
    /\ stdout' = Append(stdout, confirmation)
    /\ pc' = "done"
    /\ UNCHANGED <<platform, fs, unreadable, stack, raw_urls, included, visited,
                   denied, run>>

\* Line 36 raises (the output file cannot be created or opened for writing):
\* the exception is not caught and the run ends.
OpenFails ==
    /\ pc = "walk"
    /\ stack = <<>>
    /\ pc' = "failed"
    /\ UNCHANGED <<platform, fs, unreadable, outFile, stack, raw_urls, included,
                   visited, denied, opens, oldOut, stdout, run>>

\* The script is started again in the same directory after a run that
\* completed; nothing but the output file of that run has changed.
Rerun ==
    /\ pc = "done"
    /\ run < MaxRuns
    /\ run' = run + 1
    /\ pc' = "walk"
    /\ stack' = <<0>>
    /\ raw_urls' = <<>>
    /\ included' = <<>>
    /\ visited' = {}
    /\ denied' = {}
    /\ opens' = 0
    /\ oldOut' = NoFile
    /\ stdout' = <<>>
    /\ UNCHANGED <<platform, fs, unreadable, outFile>>

Next ==
    \/ WalkYield
    \/ WalkDenied
    \/ WriteOutput
    \/ OpenFails
    \/ Rerun

Spec == Init /\ [][Next]_vars

TypeOK ==
    /\ platform \in Platforms
    /\ pc \in {"walk", "done", "failed"}
    /\ run \in 1..MaxRuns
    /\ Len(raw_urls) = Len(included)

(***************************************************************************)
(* Vocabulary of the properties, stated on the tree rather than on the     *)
(* walk.                                                                   *)
(***************************************************************************)
RECURSIVE AncestorsOrSelf(_)
AncestorsOrSelf(d) ==
    IF d = 0 THEN {0} ELSE {d} \cup AncestorsOrSelf(fs.dirs[d].parent)

\* d is a directory named in ignore_dirs, or lies beneath one.
UnderIgnored(d) ==
    \E a \in AncestorsOrSelf(d) : a # 0 /\ fs.dirs[a].name \in ignore_dirs

\* d cannot be listed, or lies beneath a directory that cannot be listed.
UnderUnreadable(d) == AncestorsOrSelf(d) \cap unreadable # {}

StartsWith(s, pre) == Len(pre) <= Len(s) /\ \A k \in 1..Len(pre) : s[k] = pre[k]

\* The last characters of name spell an allowed extension.
HasAllowedExtension(name) ==
    \E ext \in allowed_extensions :
        /\ Len(ext) <= Len(name)
        /\ \A k \in 1..Len(ext) : name[Len(name) - Len(ext) + k] = ext[k]

\* The files the filter is meant to keep: not beneath an ignored directory,
\* not an ignored name, an allowed extension.
QualifyingFiles ==
    { f \in AllFiles : /\ ~UnderIgnored(f.dir)
                       /\ f.name \notin ignore_files
                       /\ HasAllowedExtension(f.name) }

\* ... of which the walk can see those beneath no unlistable directory.
ListableQualifyingFiles == { f \in QualifyingFiles : ~UnderUnreadable(f.dir) }

\* The names from the traversal root down to a directory.
RECURSIVE DirComponents(_)
DirComponents(d) ==
    IF d = 0 THEN <<>> ELSE Append(DirComponents(fs.dirs[d].parent), fs.dirs[d].name)

\* The path of a file relative to the traversal root.
RelOf(f) == Join(Append(DirComponents(f.dir), f.name), <<Sep(platform)>>)

\* u is r with every backslash turned into a forward slash.
Slashed(r, u) ==
    /\ Len(u) = Len(r)
    /\ \A k \in 1..Len(r) : u[k] = (IF r[k] = "\\" THEN "/" ELSE r[k])

\* What follows base_url in the i-th URL.
UrlTail(i) == SubSeq(raw_urls[i], Len(base_url) + 1, Len(raw_urls[i]))

Newlines(s) == Cardinality({k \in DOMAIN s : s[k] = "\n"})

(***************************************************************************)
(* C1                                                                      *)
(***************************************************************************)
\* C1: no file beneath a directory named in ignore_dirs (at any depth) is in
\* the output, and the walk never lists, is never refused by, and never
\* queues such a directory: it is pruned before the descent.
C1_IgnoredDirsPruned ==
    /\ \A i \in DOMAIN included : ~UnderIgnored(included[i].dir)
    /\ \A d \in visited \cup denied \cup Range(stack) : ~UnderIgnored(d)

\* A finished run over a tree with a qualifying file two levels below an
\* ignored directory, everything listable.
C1_Witness ==
    /\ pc = "done"
    /\ unreadable = {}
    /\ \E f \in fs.files :
         /\ f.dir # 0
         /\ fs.dirs[f.dir].parent # 0
         /\ fs.dirs[fs.dirs[f.dir].parent].name \in ignore_dirs
         /\ f.name \notin ignore_files
         /\ HasAllowedExtension(f.name)
         /\ \A i \in DOMAIN included : included[i] # f

ScenarioUrls ==
    { base_url \o <<"a", ".", "t", "s">>,
      base_url \o <<"n", "o", "t", "e", "s", ".", "m", "d">> }

\* C3 as claimed: after a completed run the files with a URL in the output
\* are exactly the qualifying files of the tree, each once; in the scenario
\* tree the URLs are those of a.ts and notes.md.
C3_ExactlyQualifying ==
    pc = "done" =>
        /\ Range(included) = QualifyingFiles
        /\ Len(included) = Cardinality(QualifyingFiles)
        /\ fs = ScenarioTree => Range(raw_urls) = ScenarioUrls

\* C3 as amended: after a completed run the files with a URL in the output
\* are exactly the qualifying files beneath no unlistable directory, each
\* once, and record i is the URL of file i; in the scenario tree with every
\* directory listable the URLs are those of a.ts and notes.md.
C3_ExactlyListableQualifying ==
    pc = "done" =>
        /\ Range(included) = ListableQualifyingFiles
        /\ Len(included) = Cardinality(ListableQualifyingFiles)
        /\ Len(raw_urls) = Len(included)
        /\ \A i \in DOMAIN included :
             /\ StartsWith(raw_urls[i], base_url)
             /\ Slashed(RelOf(included[i]), UrlTail(i))
        /\ (fs = ScenarioTree /\ unreadable = {}) =>
             (Range(raw_urls) = ScenarioUrls /\ Len(raw_urls) = 2)

\* A completed run over the scenario tree.
C3_Witness ==
    /\ pc = "done"
    /\ fs = ScenarioTree
    /\ unreadable = {}
    /\ Len(raw_urls) = 2

(***************************************************************************)
(* C4                                                                      *)
(***************************************************************************)
\* C4: no file whose name is in ignore_files has a URL in the output,
\* whatever its extension and whichever directory holds it.
C4_IgnoredFilesExcluded ==
    \A f \in AllFiles :
        f.name \in ignore_files => \A i \in DOMAIN included : included[i] # f

\* A completed run that listed a subdirectory holding package-lock.json,
\* which ends in the allowed suffix .json.
C4_Witness ==
    /\ pc = "done"
    /\ \E f \in fs.files :
         /\ f.name \in ignore_files
         /\ HasAllowedExtension(f.name)
         /\ f.dir # 0
         /\ f.dir \in visited

(***************************************************************************)
(* C5                                                                      *)
(***************************************************************************)
\* C5: no file whose name ends in no allowed extension has a URL in the
\* output, and every URL in the output ends in an allowed extension.
C5_ExtensionRequired ==
    /\ \A f \in AllFiles :
         ~HasAllowedExtension(f.name) => \A i \in DOMAIN included : included[i] # f
    /\ \A i \in DOMAIN raw_urls : HasAllowedExtension(raw_urls[i])

\* A completed run that listed a directory holding a file without an allowed
\* extension.
C5_Witness ==
    /\ pc = "done"
    /\ \E f \in fs.files : ~HasAllowedExtension(f.name) /\ f.dir \in visited

(***************************************************************************)
(* C6                                                                      *)
(***************************************************************************)
\* C6 as claimed: every URL is base_url followed by the relative path of its
\* file with the backslashes turned into slashes; no URL holds a backslash
\* and none continues with "./" after base_url.
C6_UrlShape ==
    \A i \in DOMAIN raw_urls :
        /\ StartsWith(raw_urls[i], base_url)
        /\ Slashed(RelOf(included[i]), UrlTail(i))
        /\ "\\" \notin Range(raw_urls[i])
        /\ ~StartsWith(UrlTail(i), <<".", "/">>)

\* C6 as amended: every URL is base_url followed by the relative path of its
\* file with the backslashes turned into slashes, and no URL holds a
\* backslash; a URL continues with "./" after base_url exactly when the
\* relative path of its file begins with a dot and a backslash.
C6_UrlShapeAmended ==
    \A i \in DOMAIN raw_urls :
        /\ StartsWith(raw_urls[i], base_url)
        /\ Slashed(RelOf(included[i]), UrlTail(i))
        /\ "\\" \notin Range(raw_urls[i])
        /\ StartsWith(UrlTail(i), <<".", "/">>)
             <=> StartsWith(RelOf(included[i]), <<".", "\\">>)

\* A completed run that reported a file below a subdirectory whose relative
\* path holds a backslash.
C6_Witness ==
    /\ pc = "done"
    /\ \E i \in DOMAIN included :
         /\ included[i].dir # 0
         /\ "\\" \in Range(RelOf(included[i]))

(***************************************************************************)
(* C7                                                                      *)
(***************************************************************************)
\* C7: a run that follows a completed run over the same tree writes what the
\* output file already held.
C7_RerunIdentical ==
    (run >= 2 /\ pc = "done") => (oldOut.exists /\ outFile = oldOut)

\* A second run completed with a non-empty output.
C7_Witness ==
    /\ run = 2
    /\ pc = "done"
    /\ raw_urls # <<>>
    /\ outFile.data # <<>>

(***************************************************************************)
(* C8                                                                      *)
(***************************************************************************)
\* C8: the output file is opened for writing only once the traversal is
\* over, once per run, and after a completed run it holds the URL records of
\* this run in order, a line separator between consecutive records, and
\* nothing else, whatever it held before.
C8_Overwritten ==
    /\ opens <= 1
    /\ opens = 1 => (stack = <<>> /\ pc = "done")
    /\ pc = "done" =>
         /\ opens = 1
         /\ outFile = FileWith(TextWrite(platform, Join(raw_urls, <<"\n">>)))

\* A completed run with two or more records over an output file that held
\* other text.
C8_Witness ==
    /\ pc = "done"
    /\ oldOut = FileWith(StaleText)
    /\ Len(raw_urls) >= 2

(***************************************************************************)
(* C9                                                                      *)
(***************************************************************************)
\* C9: after a completed run over a tree without qualifying files the output
\* file exists and is empty.
C9_EmptyOutput ==
    (pc = "done" /\ QualifyingFiles = {}) => outFile = FileWith(<<>>)

\* A completed run over a tree that holds only filtered-out files and an
\* output file with other text in it.
C9_Witness ==
    /\ pc = "done"
    /\ QualifyingFiles = {}
    /\ fs.files # {}
    /\ oldOut = FileWith(StaleText)
    /\ outFile = FileWith(<<>>)

(***************************************************************************)
(* C10                                                                     *)
(***************************************************************************)
\* The lines of a text: the pieces between newline characters.
Lines(s) == Split(s, {"\n"})

\* C10: after a completed run with n >= 1 included files the output holds n
\* lines and n - 1 newline characters, does not end in a newline, and every
\* line starts with base_url.
C10_OneUrlPerLine ==
    (pc = "done" /\ Len(included) >= 1) =>
        /\ Newlines(outFile.data) = Len(included) - 1
        /\ Len(Lines(outFile.data)) = Len(included)
        /\ Last(outFile.data) # "\n"
        /\ \A k \in DOMAIN Lines(outFile.data) :
             StartsWith(Lines(outFile.data)[k], base_url)

====
